---- MODULE Spec2Model ----
(***************************************************************************)
(* tsuru-autoscale: the alarm package's autoscale loop                     *)
(* (alarm/auto_scale.go) and the wizard that compiles an autoscale         *)
(* specification into a scale_up and a scale_down alarm (wizard).          *)
(*                                                                         *)
(* Strings that the code composes (alarm names) are sequences of tokens,   *)
(* so that fmt.Sprintf is concatenation.  Times are integers: ZeroTime is  *)
(* Go's zero time.Time, wall-clock readings are Epoch + k.  Durations are  *)
(* integers of a bounded width and Time.Sub saturates as Go's does.        *)
(***************************************************************************)
EXTENDS Integers, Sequences, FiniteSets, TLC

VARIABLES
    alarms,     \* the alarms collection: alarm name -> alarm record
    events,     \* the events collection, in insertion order
    now,        \* the wall clock (time.Now())
    wizards,    \* the wizard collection: the stored AutoScale documents, in insertion order
    lastOp      \* the last operation called, its inputs and what it returned

vars == <<alarms, events, now, wizards, lastOp>>

----------------------------------------------------------------------------
(* Bounds *)

\* the wall clock runs over Epoch .. Epoch + MaxClock
MaxClock == 2
\* the longest event history the events collection starts with
MaxEvents == 2

----------------------------------------------------------------------------
(* Time and durations *)

\* the largest time.Duration (math.MaxInt64 nanoseconds in Go), scaled down
MaxDuration == 7
MinDuration == 0 - MaxDuration - 1

\* the zero time.Time (January 1, year 1)
ZeroTime == 0
\* Wall-clock readings lie further than MaxDuration after the zero time
\* (about 2000 years against about 292 years in Go).
Epoch == MaxDuration + 2

Clock == Epoch .. (Epoch + MaxClock)

\* time.Time.IsZero
IsZero(t) == t = ZeroTime

\* time.Time.Sub: t - u, saturated to the range of time.Duration
Sub(t, u) ==
    IF t - u > MaxDuration THEN MaxDuration
    ELSE IF t - u < MinDuration THEN MinDuration
    ELSE t - u

\* a time.Duration product: the integer wrapped to the width of time.Duration
WrapDuration(x) ==
    LET m == 2 * (MaxDuration + 1)
        r == x % m
    IN IF r > MaxDuration THEN r - m ELSE r

\* time.Second, in the units of the scaled-down time.Duration
Second == 2

\* the wait periods a caller may pass: any time.Duration
WaitPeriods == {0 - 1, 0, 1, 2, MaxDuration}

----------------------------------------------------------------------------
(* Names *)

Nil == "nil"
ErrNotFound == "not found"
ErrDB == "db error"

\* fmt.Sprintf("%s_%s", kind, name) and fmt.Sprintf("%s_%s_%s", kind, name, process)
Sprintf2(kind, name) == <<kind, "_">> \o name
Sprintf3(kind, name, process) == <<kind, "_">> \o name \o <<"_">> \o process

\* the two alarms the loop is exercised with
UpAlarm == Sprintf2("scale_up", <<"a">>)
DownAlarm == Sprintf2("scale_down", <<"a">>)
LoopAlarms == {UpAlarm, DownAlarm}

\* scaleIfNeeded's nil *Config
NilConfig == [Name |-> <<>>]

----------------------------------------------------------------------------
(* Alarms and events of the loop *)

\* what Alarm.Check answers: the expression's value, or a fetch/evaluation error
CheckResults == {"true", "false", "error"}
\* what the action dispatcher answers: success, or a failure message
DispatchResults == {"ok", "connection refused"}

\* the alarms the loop is exercised with: as the wizard names them, Enabled or not
LoopAlarm(name, kind, enabled, wait) ==
    [Name |-> name, Enabled |-> enabled, Wait |-> wait,
     Actions |-> <<kind>>, Instance |-> <<"a">>]

LoopStores ==
    {[n \in LoopAlarms |->
        IF n = UpAlarm THEN LoopAlarm(n, "scale_up", eu, 1)
        ELSE LoopAlarm(n, "scale_down", ed, 2)] :
        eu \in BOOLEAN, ed \in BOOLEAN}

\* the zero Event, what a lookup that finds nothing leaves in its result
ZeroEvent ==
    [ID |-> 0, AlarmName |-> <<>>, Type |-> "", StartTime |-> ZeroTime,
     EndTime |-> ZeroTime, Successful |-> FALSE, Error |-> ""]

\* an Event in flight: EndTime is the zero time
OpenEvent(id, name, type, start) ==
    [ID |-> id, AlarmName |-> name, Type |-> type, StartTime |-> start,
     EndTime |-> ZeroTime, Successful |-> FALSE, Error |-> ""]

\* a closed Event: EndTime set, Successful and Error from the dispatcher's answer
ClosedEvent(id, name, type, start, end, dispatch) ==
    [ID |-> id, AlarmName |-> name, Type |-> type, StartTime |-> start,
     EndTime |-> end, Successful |-> (dispatch = "ok"),
     Error |-> IF dispatch = "ok" THEN "" ELSE dispatch]

InFlight(e) == IsZero(e.EndTime)

\* the Type of the events of an alarm: the direction of its action
EventType(name) == IF name = UpAlarm THEN "increase" ELSE "decrease"

\* the events one slot of a history may hold
SlotEvents(id) ==
    {OpenEvent(id, n, EventType(n), s) : n \in LoopAlarms, s \in Clock}
    \cup {ClosedEvent(id, n, EventType(n), s, e, "ok") :
            n \in LoopAlarms, s \in Clock, e \in Clock}

\* An event history the loop can have produced: events created at distinct
\* clock readings and kept in that order, an event closed no earlier than it
\* started, and for each alarm an event in flight only as its most recent
\* one, started after the previous one ended.
WellFormed(h) ==
    /\ \A i \in 1..Len(h) : h[i].ID = i
    /\ \A i \in 1..Len(h) : ~InFlight(h[i]) => h[i].EndTime >= h[i].StartTime
    /\ \A i \in 1..Len(h) : \A j \in (i + 1)..Len(h) :
        /\ h[i].StartTime < h[j].StartTime
        /\ h[i].AlarmName = h[j].AlarmName =>
            /\ ~InFlight(h[i])
            /\ h[i].EndTime <= h[j].StartTime

\* the well-formed histories of up to n events: each extends a shorter one
RECURSIVE HistoriesUpTo(_)
HistoriesUpTo(n) ==
    IF n = 0 THEN {<<>>}
    ELSE LET shorter == HistoriesUpTo(n - 1)
         IN shorter \cup
            {h \in {Append(g, e) : g \in {x \in shorter : Len(x) = n - 1},
                                   e \in SlotEvents(n)} : WellFormed(h)}

Histories == HistoriesUpTo(MaxEvents)

\* the latest time an event history mentions
RECURSIVE LatestTime(_)
LatestTime(h) ==
    IF h = <<>> THEN Epoch
    ELSE LET e == h[Len(h)]
             t == IF e.EndTime > e.StartTime THEN e.EndTime ELSE e.StartTime
             r == LatestTime(SubSeq(h, 1, Len(h) - 1))
         IN IF t > r THEN t ELSE r

\* the events of one alarm, in insertion order
RECURSIVE eventsByAlarmName(_, _)
eventsByAlarmName(evs, name) ==
    IF evs = <<>> THEN <<>>
    ELSE IF Head(evs).AlarmName = name
         THEN <<Head(evs)>> \o eventsByAlarmName(Tail(evs), name)
         ELSE eventsByAlarmName(Tail(evs), name)

\* lastScaleEvent: the most recent Event of the alarm (newest first), ErrNotFound
\* and the zero Event when it has none, or the store's error
lastScaleEvent(config, evs, dbErr) ==
    LET mine == eventsByAlarmName(evs, config.Name)
    IN IF dbErr THEN [event |-> ZeroEvent, err |-> ErrDB]
       ELSE IF mine = <<>> THEN [event |-> ZeroEvent, err |-> ErrNotFound]
       ELSE [event |-> mine[Len(mine)], err |-> Nil]

\* shouldWait without the in-flight test: a zero EndTime is subtracted like any other
shouldWait_NoInFlightTest(config, waitPeriod, evs, dbErr) ==
    LET last == lastScaleEvent(config, evs, dbErr)
        diff == Sub(now, last.event.EndTime)
    IN IF last.err # Nil /\ last.err # ErrNotFound THEN [wait |-> FALSE, err |-> last.err]
       ELSE IF diff > waitPeriod THEN [wait |-> FALSE, err |-> Nil]
       ELSE [wait |-> TRUE, err |-> Nil]

\* shouldWait with the comparison off by one: diff >= waitPeriod ends the wait
shouldWait_GreaterOrEqual(config, waitPeriod, evs, dbErr) ==
    LET last == lastScaleEvent(config, evs, dbErr)
        diff == Sub(now, last.event.EndTime)
    IN IF last.err # Nil /\ last.err # ErrNotFound THEN [wait |-> FALSE, err |-> last.err]
       ELSE IF last.err # ErrNotFound /\ IsZero(last.event.EndTime)
            THEN [wait |-> TRUE, err |-> Nil]
       ELSE IF diff >= waitPeriod THEN [wait |-> FALSE, err |-> Nil]
       ELSE [wait |-> TRUE, err |-> Nil]

\* shouldWait (auto_scale.go): in flight blocks; otherwise the time since the
\* last event ended is compared with the wait period
shouldWait(config, waitPeriod, evs, dbErr) ==
    LET last == lastScaleEvent(config, evs, dbErr)
        lastEvent == last.event
        err == last.err
        diff == Sub(now, lastEvent.EndTime)
    IN IF err # Nil /\ err # ErrNotFound THEN [wait |-> FALSE, err |-> err]
       ELSE IF err # ErrNotFound /\ IsZero(lastEvent.EndTime)
            THEN [wait |-> TRUE, err |-> Nil]
       ELSE IF diff > waitPeriod THEN [wait |-> FALSE, err |-> Nil]
       ELSE [wait |-> TRUE, err |-> Nil]


----------------------------------------------------------------------------
(* The autoscale loop (alarm/auto_scale.go) *)

ErrNotConfigured == "AutoScale is not configured."

\* the event a fire would record: created now, closed when the dispatcher answers
Fire(config, evs, dispatch) ==
    Append(evs, ClosedEvent(Len(evs) + 1, config.Name, EventType(config.Name),
                            now, now, dispatch))

\* scaleIfNeeded with its body live but no in-flight test: it fires when the
\* expression holds unless a closed last event is within the cooldown
scaleIfNeeded_FiresInFlight(config, evs, check, dispatch) ==
    LET last == lastScaleEvent(config, evs, FALSE)
    IN IF config = NilConfig
       THEN [err |-> "AutoScale is not configured.", events |-> evs, checked |-> FALSE]
       ELSE IF check = "error"
       THEN [err |-> "check failed", events |-> evs, checked |-> TRUE]
       ELSE IF check = "false"
       THEN [err |-> Nil, events |-> evs, checked |-> TRUE]
       ELSE IF last.err = Nil /\ ~InFlight(last.event)
                /\ ~(Sub(now, last.event.EndTime) > config.Wait)
       THEN [err |-> Nil, events |-> evs, checked |-> TRUE]
       ELSE [err |-> IF dispatch = "ok" THEN Nil ELSE dispatch,
             events |-> Fire(config, evs, dispatch), checked |-> TRUE]

\* scaleIfNeeded with its body live but the cooldown ended one instant early:
\* it fires when the time since the last event ended equals Wait
scaleIfNeeded_FiresAtWait(config, evs, check, dispatch) ==
    LET last == lastScaleEvent(config, evs, FALSE)
    IN IF config = NilConfig
       THEN [err |-> "AutoScale is not configured.", events |-> evs, checked |-> FALSE]
       ELSE IF check = "error"
       THEN [err |-> "check failed", events |-> evs, checked |-> TRUE]
       ELSE IF check = "false"
       THEN [err |-> Nil, events |-> evs, checked |-> TRUE]
       ELSE IF last.err = Nil
                /\ (InFlight(last.event)
                    \/ ~(Sub(now, last.event.EndTime) >= config.Wait))
       THEN [err |-> Nil, events |-> evs, checked |-> TRUE]
       ELSE [err |-> IF dispatch = "ok" THEN Nil ELSE dispatch,
             events |-> Fire(config, evs, dispatch), checked |-> TRUE]

\* scaleIfNeeded: rejects a nil config; the body that checked the metric,
\* consulted shouldWait, created the event and scaled is commented out, so
\* nothing else happens: no Check, no event, no dispatch.
scaleIfNeeded(config, evs, check, dispatch) ==
    IF config = NilConfig
    THEN [err |-> ErrNotConfigured, events |-> evs, checked |-> FALSE]
    ELSE [err |-> Nil, events |-> evs, checked |-> FALSE]

\* the stored alarms as a list, disabled ones included
configs_AllStored == <<alarms[UpAlarm], alarms[DownAlarm]>>

\* runAutoScaleOnce's list of configs: the empty literal []Config{}
configs == <<>>

\* the body of runAutoScaleOnce's range loop: scaleIfNeeded on each config in
\* turn, an error logged and the loop continued
RECURSIVE rangeConfigs(_, _, _, _)
rangeConfigs(cs, st, checks, dispatch) ==
    IF cs = <<>> THEN st
    ELSE LET config == Head(cs)
             r == scaleIfNeeded(config, st.events, checks[config.Name], dispatch)
         IN rangeConfigs(Tail(cs),
                [events |-> r.events,
                 evaluated |-> Append(st.evaluated, config.Name),
                 checked |-> IF r.checked THEN st.checked \cup {config.Name}
                             ELSE st.checked,
                 logged |-> IF r.err # Nil THEN Append(st.logged, r.err)
                            ELSE st.logged],
                checks, dispatch)

runAutoScaleOnce(evs, checks, dispatch) ==
    rangeConfigs(configs,
        [events |-> evs, evaluated |-> <<>>, checked |-> {}, logged |-> <<>>],
        checks, dispatch)

\* one tick of runAutoScale
RunAutoScaleOnce ==
    \E checks \in [DOMAIN alarms -> CheckResults], dispatch \in DispatchResults :
        LET r == runAutoScaleOnce(events, checks, dispatch)
        IN /\ events' = r.events
           /\ lastOp' = [op |-> "runAutoScaleOnce", checks |-> checks,
                         dispatch |-> dispatch, before |-> events,
                         evaluated |-> r.evaluated, checked |-> r.checked,
                         logged |-> r.logged]
           /\ UNCHANGED <<alarms, now, wizards>>

\* a direct call of scaleIfNeeded, on a stored alarm or on nil
ScaleIfNeeded ==
    \E config \in {alarms[n] : n \in DOMAIN alarms} \cup {NilConfig},
       check \in CheckResults, dispatch \in DispatchResults :
        LET r == scaleIfNeeded(config, events, check, dispatch)
        IN /\ events' = r.events
           /\ lastOp' = [op |-> "scaleIfNeeded", config |-> config,
                         check |-> check, dispatch |-> dispatch,
                         before |-> events, checked |-> r.checked,
                         err |-> r.err]
           /\ UNCHANGED <<alarms, now, wizards>>

\* a call of shouldWait on a stored alarm
ShouldWait ==
    \E n \in DOMAIN alarms, waitPeriod \in WaitPeriods, dbErr \in BOOLEAN :
        /\ lastOp' = [op |-> "shouldWait", config |-> alarms[n],
                      waitPeriod |-> waitPeriod,
                      last |-> lastScaleEvent(alarms[n], events, dbErr),
                      ret |-> shouldWait(alarms[n], waitPeriod, events, dbErr)]
        /\ UNCHANGED <<alarms, events, now, wizards>>

\* AutoScaleEnable that flips the Enabled field instead of setting it
AutoScaleEnable_Flips ==
    \E n \in DOMAIN alarms :
        /\ alarms' = [alarms EXCEPT ![n].Enabled = ~alarms[n].Enabled]
        /\ lastOp' = [op |-> "AutoScaleEnable", config |-> alarms[n], err |-> Nil]
        /\ UNCHANGED <<events, now, wizards>>

\* AutoScaleEnable / AutoScaleDisable: set the Enabled field, return nil
AutoScaleEnable ==
    \E n \in DOMAIN alarms :
        /\ alarms' = [alarms EXCEPT ![n].Enabled = TRUE]
        /\ lastOp' = [op |-> "AutoScaleEnable", config |-> alarms[n], err |-> Nil]
        /\ UNCHANGED <<events, now, wizards>>

AutoScaleDisable ==
    \E n \in DOMAIN alarms :
        /\ alarms' = [alarms EXCEPT ![n].Enabled = FALSE]
        /\ lastOp' = [op |-> "AutoScaleDisable", config |-> alarms[n], err |-> Nil]
        /\ UNCHANGED <<events, now, wizards>>

\* runAutoScale sleeps between two ticks: the clock advances
Sleep ==
    /\ now < Epoch + MaxClock
    /\ now' = now + 1
    /\ lastOp' = [op |-> "Sleep"]
    /\ UNCHANGED <<alarms, events, wizards>>

InitLoop ==
    /\ alarms \in LoopStores
    /\ events \in Histories
    /\ now \in {t \in Clock : t >= LatestTime(events)}
    /\ wizards = <<>>
    /\ lastOp = [op |-> "none"]

NextLoop ==
    \/ RunAutoScaleOnce
    \/ ScaleIfNeeded
    \/ AutoScaleEnable
    \/ AutoScaleDisable
    \/ Sleep

SpecLoop == InitLoop /\ [][NextLoop]_vars

\* shouldWait on its own: every history, clock reading and wait period
NextWait ==
    \/ ShouldWait
    \/ Sleep

SpecWait == InitLoop /\ [][NextWait]_vars


----------------------------------------------------------------------------
(* Properties of the loop *)

\* the most recent event of an alarm in a history is in flight
LastInFlight(evs, name) ==
    LET mine == eventsByAlarmName(evs, name)
    IN mine # <<>> /\ InFlight(mine[Len(mine)])

\* the events in flight of an alarm
InFlightOf(evs, name) ==
    {i \in 1..Len(evs) : evs[i].AlarmName = name /\ InFlight(evs[i])}

IsTick == lastOp.op = "runAutoScaleOnce"
IsScaleCall == lastOp.op = "scaleIfNeeded" /\ lastOp.config # NilConfig

\* C1: in every reachable state each alarm has at most one event in flight,
\* and a tick or a scaleIfNeeded call leaves the events of an alarm whose most
\* recent event is in flight exactly as they were: no new event for it.
C1_AtMostOneInFlight ==
    /\ \A n \in DOMAIN alarms : Cardinality(InFlightOf(events, n)) <= 1
    /\ (IsTick \/ IsScaleCall) =>
        \A n \in DOMAIN alarms :
            LastInFlight(lastOp.before, n) =>
                eventsByAlarmName(events, n) = eventsByAlarmName(lastOp.before, n)

\* a tick, and a scaleIfNeeded call, have run on an enabled alarm whose
\* expression holds and whose most recent event is in flight
C1_Witness ==
    \/ /\ IsTick
       /\ alarms[UpAlarm].Enabled
       /\ lastOp.checks[UpAlarm] = "true"
       /\ LastInFlight(lastOp.before, UpAlarm)
       /\ Len(events) = 2
    \/ /\ IsScaleCall
       /\ lastOp.config.Enabled
       /\ lastOp.check = "true"
       /\ LastInFlight(lastOp.before, lastOp.config.Name)

IsShouldWait == lastOp.op = "shouldWait"

\* C2: when the most recent event of the alarm exists and its EndTime is
\* zero, shouldWait returns (true, nil), for every wait period and clock reading.
C2_InFlightWaits ==
    (IsShouldWait /\ lastOp.last.err = Nil /\ IsZero(lastOp.last.event.EndTime))
        => lastOp.ret = [wait |-> TRUE, err |-> Nil]

\* shouldWait was called with a zero wait period on an alarm whose event in
\* flight started two clock readings ago
C2_Witness ==
    /\ IsShouldWait
    /\ lastOp.last.err = Nil
    /\ IsZero(lastOp.last.event.EndTime)
    /\ lastOp.waitPeriod = 0
    /\ now - lastOp.last.event.StartTime = 2
    /\ lastOp.ret.wait

\* C3: when the most recent event of the alarm is closed, shouldWait returns
\* false exactly when now - EndTime is greater than the wait period, and true
\* when it is equal or smaller; no error either way.
C3_ClosedWaitsUntilElapsed ==
    (IsShouldWait /\ lastOp.last.err = Nil /\ ~IsZero(lastOp.last.event.EndTime))
        => /\ lastOp.ret.err = Nil
           /\ lastOp.ret.wait = ~(now - lastOp.last.event.EndTime > lastOp.waitPeriod)

\* shouldWait was called exactly one wait period after the last event closed,
\* and answered true
C3_Witness ==
    /\ IsShouldWait
    /\ lastOp.last.err = Nil
    /\ ~IsZero(lastOp.last.event.EndTime)
    /\ lastOp.waitPeriod > 0
    /\ now - lastOp.last.event.EndTime = lastOp.waitPeriod
    /\ lastOp.ret.wait

\* C4: when the alarm has no event (the lookup reports not found), shouldWait
\* returns (false, nil) for every wait period.
C4_NoEventNoWait ==
    (IsShouldWait /\ lastOp.last.err = ErrNotFound)
        => lastOp.ret = [wait |-> FALSE, err |-> Nil]


\* what a tick or a scaleIfNeeded call was told the alarm's Check and its
\* dispatcher answer
CheckOf(name) == IF IsTick THEN lastOp.checks[name] ELSE lastOp.check
\* the tick, or the scaleIfNeeded call, was on this alarm
ActedOn(name) ==
    \/ IsTick /\ alarms[name].Enabled
    \/ IsScaleCall /\ lastOp.config.Name = name /\ alarms[name].Enabled

\* C5: one tick (or scaleIfNeeded call) on a stored enabled alarm whose
\* expression holds and which has no event leaves exactly one event for it,
\* closed: StartTime and EndTime set, Successful and Error empty when the
\* dispatcher succeeds.
C5_TickFiresOnce ==
    \A n \in DOMAIN alarms :
        ((IsTick \/ IsScaleCall) /\ ActedOn(n) /\ CheckOf(n) = "true"
            /\ lastOp.dispatch = "ok"
            /\ eventsByAlarmName(lastOp.before, n) = <<>>)
        => LET mine == eventsByAlarmName(events, n)
           IN /\ Len(mine) = 1
              /\ ~IsZero(mine[1].StartTime)
              /\ ~IsZero(mine[1].EndTime)
              /\ mine[1].Successful
              /\ mine[1].Error = ""

\* C6: a tick or scaleIfNeeded call on an alarm whose most recent event is
\* closed and for which now - EndTime is not greater than the alarm's Wait
\* creates no event, even when the expression holds: the alarm's events are
\* those it had before.
C6_CooldownBlocksFire ==
    (IsTick \/ IsScaleCall) =>
        \A n \in DOMAIN alarms :
            LET mine == eventsByAlarmName(lastOp.before, n)
            IN (mine # <<>> /\ ~InFlight(mine[Len(mine)])
                    /\ ~(now - mine[Len(mine)].EndTime > alarms[n].Wait))
               => eventsByAlarmName(events, n) = mine

\* scaleIfNeeded was called on an enabled alarm whose expression holds, whose
\* single event closed exactly Wait ago
C6_Witness ==
    /\ IsScaleCall
    /\ lastOp.config.Enabled
    /\ lastOp.check = "true"
    /\ LET mine == eventsByAlarmName(lastOp.before, lastOp.config.Name)
       IN /\ Len(mine) = 1
          /\ ~InFlight(mine[1])
          /\ now - mine[1].EndTime = lastOp.config.Wait
          /\ eventsByAlarmName(events, lastOp.config.Name) = mine

\* the names in a list
Range(q) == {q[i] : i \in 1..Len(q)}

\* C7: a tick never hands an alarm with Enabled = false to scaleIfNeeded,
\* never calls Check on it and never creates an event for it, whatever ticks
\* and Enable/Disable calls came before.
C7_DisabledNeverEvaluated ==
    IsTick =>
        \A n \in DOMAIN alarms :
            ~alarms[n].Enabled =>
                /\ n \notin Range(lastOp.evaluated)
                /\ n \notin lastOp.checked
                /\ eventsByAlarmName(events, n) = eventsByAlarmName(lastOp.before, n)

\* a tick has run with scale_up disabled and scale_down enabled, both
\* expressions holding and neither alarm in cooldown
C7_Witness ==
    /\ IsTick
    /\ ~alarms[UpAlarm].Enabled
    /\ alarms[DownAlarm].Enabled
    /\ lastOp.checks[UpAlarm] = "true"
    /\ lastOp.checks[DownAlarm] = "true"
    /\ events = <<>>

\* C8: when an alarm fires (enabled, expression holds, not waiting) and the
\* dispatcher reports failure, the tick leaves a new event for it that is
\* closed: EndTime set, Successful = false, Error the dispatcher's message.
C8_FailedDispatchIsRecorded ==
    \A n \in DOMAIN alarms :
        ((IsTick \/ IsScaleCall) /\ ActedOn(n) /\ CheckOf(n) = "true"
            /\ lastOp.dispatch = "connection refused"
            /\ ~shouldWait(alarms[n], alarms[n].Wait, lastOp.before, FALSE).wait)
        => LET mine == eventsByAlarmName(events, n)
           IN /\ Len(mine) = Len(eventsByAlarmName(lastOp.before, n)) + 1
              /\ ~IsZero(mine[Len(mine)].EndTime)
              /\ ~mine[Len(mine)].Successful
              /\ mine[Len(mine)].Error = "connection refused"

\* C9: within one tick, a failure on one alarm does not stop the tick: every
\* other enabled alarm is still evaluated.
C9_FailureDoesNotStopTick ==
    IsTick =>
        \A m \in DOMAIN alarms : \A n \in DOMAIN alarms \ {m} :
            (alarms[m].Enabled /\ lastOp.checks[m] = "error" /\ alarms[n].Enabled)
                => n \in Range(lastOp.evaluated)


----------------------------------------------------------------------------
(* The wizard *)

\* the built-in expression templates, as tokens; a placeholder is one token
unitsExpression ==
    <<"!units.lock.Locked && count(unit.ProcessName === ", "{process}", ") > ",
      "{minUnits}">>
defaultExpression ==
    <<"{metric}", ".buckets[", "{metric}", ".buckets.length - 1].",
      "{aggregator}", ".value ", "{operator}", " ", "{value}">>

\* datasource.Get: the registered datasources and their expression templates;
\* "mem" is registered with a template of its own, "cpu" and "units" are not
NoDataSource == [ExpressionTemplate |-> <<>>, found |-> FALSE]
datasourceGet(d) ==
    IF d = "mem"
    THEN [ExpressionTemplate |-> <<"mem.value ", "{operator}", " ", "{value}">>,
          found |-> TRUE]
    ELSE NoDataSource

\* strings.Join(parts, sep)
RECURSIVE Join(_, _)
Join(parts, sep) ==
    IF parts = <<>> THEN <<>>
    ELSE IF Len(parts) = 1 THEN parts[1]
    ELSE parts[1] \o <<sep>> \o Join(Tail(parts), sep)

\* strings.NewReplacer(...).Replace: each listed placeholder becomes its value
Replace(replacer, expression) ==
    [i \in 1..Len(expression) |->
        IF expression[i] \in DOMAIN replacer THEN replacer[expression[i]]
        ELSE expression[i]]

\* the autoscale specifications New is called with
ScaleUpAction ==
    [Aggregator |-> "", Metric |-> "cpu", Operator |-> ">", Value |-> "80",
     Step |-> "1", Wait |-> 1]
ScaleDownAction ==
    [Aggregator |-> "avg", Metric |-> "mem", Operator |-> "<", Value |-> "20",
     Step |-> "1", Wait |-> 5]
WizardNames == {<<"a">>, <<"a", "_", "b">>}
Processes == {<<>>, <<"b">>}
\* the specifications a caller makes: "a", "a" with process "b", and "a_b"
AutoScales ==
    {[Name |-> n, ScaleUp |-> ScaleUpAction, ScaleDown |-> ScaleDownAction,
      MinUnits |-> IF p = <<>> THEN 0 ELSE 2, Process |-> p] :
        <<n, p>> \in {k \in WizardNames \X Processes :
                        k[1] = <<"a">> \/ k[2] = <<>>}}

\* alarm.NewAlarm: stores the alarm; fails when the store fails or an alarm
\* of that name exists
ErrAlarmExists == "alarm already exists"
NewAlarm(store, a, fail) ==
    IF fail THEN [err |-> ErrDB, alarms |-> store]
    ELSE IF a.Name \in DOMAIN store THEN [err |-> ErrAlarmExists, alarms |-> store]
    ELSE [err |-> Nil, alarms |-> [n \in DOMAIN store \cup {a.Name} |->
                                     IF n = a.Name THEN a ELSE store[n]]]

\* the alarm's Wait with no conversion: the configured value as it is
alarmWait_Unconverted(action) == action.Wait

\* the alarm's Wait: action.Wait * time.Second, in time.Duration arithmetic
alarmWait(action) == WrapDuration(action.Wait * Second)

\* newScaleAction: the alarm of one direction, compiled and stored
newScaleAction(store, scaleConfig, kind, fail) ==
    LET action == IF kind = "scale_up" THEN scaleConfig.ScaleUp
                  ELSE scaleConfig.ScaleDown
        datasources == IF kind = "scale_up" THEN <<action.Metric>>
                       ELSE <<"units", action.Metric>>
        name == IF scaleConfig.Process = <<>>
                THEN Sprintf2(kind, scaleConfig.Name)
                ELSE Sprintf3(kind, scaleConfig.Name, scaleConfig.Process)
        processName == IF scaleConfig.Process = <<>> THEN <<"web">>
                       ELSE scaleConfig.Process
        aggregator == IF action.Aggregator = "" THEN "max" ELSE action.Aggregator
        expParts == [i \in 1..Len(datasources) |->
                        LET d == datasources[i]
                            ds == datasourceGet(d)
                        IN IF ~ds.found \/ ds.ExpressionTemplate = <<>>
                           THEN IF d = "units" THEN unitsExpression
                                ELSE defaultExpression
                           ELSE ds.ExpressionTemplate]
        expression == Join(expParts, " && ")
        replacer == [t \in {"{aggregator}", "{operator}", "{value}",
                            "{minUnits}", "{metric}"} |->
                        CASE t = "{aggregator}" -> aggregator
                          [] t = "{operator}" -> action.Operator
                          [] t = "{value}" -> action.Value
                          [] t = "{minUnits}" -> ToString(scaleConfig.MinUnits)
                          [] t = "{metric}" -> action.Metric]
        envs == [step |-> action.Step, process |-> processName,
                 aggregator |-> aggregator]
        a == [Name |-> name,
              Expression |-> Replace(replacer, expression),
              Enabled |-> TRUE,
              Wait |-> alarmWait(action),
              Actions |-> <<kind>>,
              Instance |-> scaleConfig.Name,
              DataSources |-> datasources,
              Envs |-> envs]
    IN NewAlarm(store, a, fail)

\* AutoScale.alarms: the names of the two alarms of a specification
alarmNames(a) ==
    IF a.Process = <<>>
    THEN <<Sprintf2("scale_up", a.Name), Sprintf2("scale_down", a.Name)>>
    ELSE <<Sprintf3("scale_up", a.Name, a.Process),
           Sprintf3("scale_down", a.Name, a.Process)>>

\* conn.Wizard().Insert: the document is appended; the collection's unique
\* index on name rejects a second document of the same name
ErrDuplicate == "duplicate key"
wizardInsert(docs, a, fail) ==
    IF fail THEN [err |-> ErrDB, wizards |-> docs]
    ELSE IF \E i \in 1..Len(docs) : docs[i].Name = a.Name
    THEN [err |-> ErrDuplicate, wizards |-> docs]
    ELSE [err |-> Nil, wizards |-> Append(docs, a)]

\* the step of New at which the store fails, if any
NewFailures == {"none", "scale_up", "scale_down", "conn", "insert"}

\* New: MinUnits raised to 1, the scale_up alarm, then the scale_down alarm,
\* each error returned at once; then the specification is inserted, unless
\* the connection fails, which returns nil
New(a, failAt) ==
    LET a1 == IF a.MinUnits <= 0 THEN [a EXCEPT !.MinUnits = 1] ELSE a
        up == newScaleAction(alarms, a1, "scale_up", failAt = "scale_up")
        down == newScaleAction(up.alarms, a1, "scale_down", failAt = "scale_down")
    IN IF up.err # Nil
       THEN [err |-> up.err, alarms |-> up.alarms, wizards |-> wizards]
       ELSE IF down.err # Nil
       THEN [err |-> down.err, alarms |-> down.alarms, wizards |-> wizards]
       ELSE IF failAt = "conn"
       THEN [err |-> Nil, alarms |-> down.alarms, wizards |-> wizards]
       ELSE LET ins == wizardInsert(wizards, a1, failAt = "insert")
            IN [err |-> ins.err, alarms |-> down.alarms, wizards |-> ins.wizards]


\* alarm.FindAlarmByName: the stored alarm of that name, or a lookup error
FindAlarmByName(store, name) ==
    IF name \in DOMAIN store THEN [err |-> Nil, alarm |-> store[name]]
    ELSE [err |-> ErrNotFound, alarm |-> NilConfig]

\* alarm.RemoveAlarm: the alarm leaves the store
RemoveAlarm(store, al) ==
    [err |-> Nil, alarms |-> [n \in DOMAIN store \ {al.Name} |-> store[n]]]

\* alarm.Enable and alarm.Disable: the stored alarm's Enabled flag is set
alarmEnable(store, al) ==
    [err |-> Nil, alarms |-> [store EXCEPT ![al.Name].Enabled = TRUE]]
alarmDisable(store, al) ==
    [err |-> Nil, alarms |-> [store EXCEPT ![al.Name].Enabled = FALSE]]

\* removeAlarms: each alarm of the specification looked up and removed, in
\* the order of alarms(); the first error is returned at once
RECURSIVE removeEach(_, _)
removeEach(store, names) ==
    IF names = <<>> THEN [err |-> Nil, alarms |-> store]
    ELSE LET al == FindAlarmByName(store, Head(names))
         IN IF al.err # Nil THEN [err |-> al.err, alarms |-> store]
            ELSE LET r == RemoveAlarm(store, al.alarm)
                 IN IF r.err # Nil THEN [err |-> r.err, alarms |-> r.alarms]
                    ELSE removeEach(r.alarms, Tail(names))

removeAlarms(store, autoScale) == removeEach(store, alarmNames(autoScale))

\* conn.Wizard().Remove(a): the first document equal to a leaves the
\* collection; a lookup error when there is none
RECURSIVE wizardRemoveDoc(_, _)
wizardRemoveDoc(docs, a) ==
    IF docs = <<>> THEN <<>>
    ELSE IF Head(docs) = a THEN Tail(docs)
    ELSE <<Head(docs)>> \o wizardRemoveDoc(Tail(docs), a)

wizardRemove(docs, a, fail) ==
    IF fail THEN [err |-> ErrDB, wizards |-> docs]
    ELSE IF \A i \in 1..Len(docs) : docs[i] # a
    THEN [err |-> ErrNotFound, wizards |-> docs]
    ELSE [err |-> Nil, wizards |-> wizardRemoveDoc(docs, a)]

\* the step of Remove at which the store fails, if any
RemoveFailures == {"none", "conn", "remove"}

\* Remove with the events of the instance purged along with its alarms
Remove_PurgesEvents(a, failAt) ==
    LET rm == removeAlarms(alarms, a)
        kept == SelectSeq(events, LAMBDA e : e.Alarm.Instance # a.Name)
    IN IF rm.err # Nil
       THEN [err |-> rm.err, alarms |-> rm.alarms, wizards |-> wizards,
             events |-> events]
       ELSE IF failAt = "conn"
       THEN [err |-> ErrDB, alarms |-> rm.alarms, wizards |-> wizards,
             events |-> events]
       ELSE LET w == wizardRemove(wizards, a, failAt = "remove")
            IN [err |-> w.err, alarms |-> rm.alarms, wizards |-> w.wizards,
                events |-> kept]

\* Remove: the alarms removed, then the specification's document
Remove(a, failAt) ==
    LET rm == removeAlarms(alarms, a)
    IN IF rm.err # Nil
       THEN [err |-> rm.err, alarms |-> rm.alarms, wizards |-> wizards,
             events |-> events]
       ELSE IF failAt = "conn"
       THEN [err |-> ErrDB, alarms |-> rm.alarms, wizards |-> wizards,
             events |-> events]
       ELSE LET w == wizardRemove(wizards, a, failAt = "remove")
            IN [err |-> w.err, alarms |-> rm.alarms, wizards |-> w.wizards,
                events |-> events]

\* the list sorted by StartTime, newest first (Sort("-starttime"))
RECURSIVE sortNewestFirst(_)
sortNewestFirst(evs) ==
    IF evs = <<>> THEN <<>>
    ELSE LET i == CHOOSE k \in 1..Len(evs) :
                    \A j \in 1..Len(evs) :
                        \/ evs[j].StartTime < evs[k].StartTime
                        \/ (evs[j].StartTime = evs[k].StartTime /\ k <= j)
         IN <<evs[i]>> \o
            sortNewestFirst(SubSeq(evs, 1, i - 1) \o SubSeq(evs, i + 1, Len(evs)))

\* Limit(200)
EventsLimit == 200

\* AutoScale.Events: the events whose alarm has the specification's name as
\* Instance and scale_up or scale_down among its Actions, newest first, at
\* most EventsLimit of them
Events(a, evs, fail) ==
    LET found == SelectSeq(evs, LAMBDA e :
                    /\ e.Alarm.Instance = a.Name
                    /\ Range(e.Alarm.Actions) \cap {"scale_up", "scale_down"} # {})
        sorted == sortNewestFirst(found)
    IN IF fail THEN [err |-> ErrDB, events |-> <<>>]
       ELSE [err |-> Nil,
             events |-> SubSeq(sorted, 1, IF Len(sorted) < EventsLimit
                                          THEN Len(sorted) ELSE EventsLimit)]

\* Enable that skips an alarm it does not find
RECURSIVE enableEach_SkipsMissing(_, _)
enableEach_SkipsMissing(store, names) ==
    IF names = <<>> THEN [err |-> Nil, alarms |-> store]
    ELSE LET al == FindAlarmByName(store, Head(names))
         IN IF al.err # Nil THEN enableEach_SkipsMissing(store, Tail(names))
            ELSE enableEach_SkipsMissing(alarmEnable(store, al.alarm).alarms,
                                         Tail(names))

Enable_SkipsMissing(a) == enableEach_SkipsMissing(alarms, alarmNames(a))

\* AutoScale.Enable: each alarm looked up and enabled, in the order of
\* alarms(); the first error is returned at once
RECURSIVE enableEach(_, _)
enableEach(store, names) ==
    IF names = <<>> THEN [err |-> Nil, alarms |-> store]
    ELSE LET al == FindAlarmByName(store, Head(names))
         IN IF al.err # Nil THEN [err |-> al.err, alarms |-> store]
            ELSE LET r == alarmEnable(store, al.alarm)
                 IN IF r.err # Nil THEN [err |-> r.err, alarms |-> r.alarms]
                    ELSE enableEach(r.alarms, Tail(names))

Enable(a) == enableEach(alarms, alarmNames(a))

\* AutoScale.Disable: as Enable, with alarm.Disable
RECURSIVE disableEach(_, _)
disableEach(store, names) ==
    IF names = <<>> THEN [err |-> Nil, alarms |-> store]
    ELSE LET al == FindAlarmByName(store, Head(names))
         IN IF al.err # Nil THEN [err |-> al.err, alarms |-> store]
            ELSE LET r == alarmDisable(store, al.alarm)
                 IN IF r.err # Nil THEN [err |-> r.err, alarms |-> r.alarms]
                    ELSE disableEach(r.alarms, Tail(names))

Disable(a) == disableEach(alarms, alarmNames(a))

\* Enabled that skips an alarm it does not find
Enabled_SkipsMissing(a) ==
    \A i \in 1..Len(alarmNames(a)) :
        LET al == FindAlarmByName(alarms, alarmNames(a)[i])
        IN al.err # Nil \/ al.alarm.Enabled

\* AutoScale.Enabled: false at the first alarm that is not found or not
\* enabled, true when the loop ends
RECURSIVE enabledEach(_, _)
enabledEach(store, names) ==
    IF names = <<>> THEN TRUE
    ELSE LET al == FindAlarmByName(store, Head(names))
         IN IF al.err # Nil THEN FALSE
            ELSE IF ~al.alarm.Enabled THEN FALSE
            ELSE enabledEach(store, Tail(names))

Enabled(a) == enabledEach(alarms, alarmNames(a))

\* FindByName: the first stored specification of that name
FindByName(docs, name) ==
    LET l == SelectSeq(docs, LAMBDA d : d.Name = name)
    IN IF Len(l) > 0 THEN [err |-> Nil, autoScale |-> l[1]]
       ELSE [err |-> ErrNotFound, autoScale |-> NilConfig]

\* conn.Wizard().Update({"name": name}, a): the first document of that name
\* is replaced by a
wizardUpdate(docs, name, a, fail) ==
    IF fail THEN [err |-> ErrDB, wizards |-> docs]
    ELSE IF \A i \in 1..Len(docs) : docs[i].Name # name
    THEN [err |-> ErrNotFound, wizards |-> docs]
    ELSE LET k == CHOOSE i \in 1..Len(docs) :
                    /\ docs[i].Name = name
                    /\ \A j \in 1..(i - 1) : docs[j].Name # name
         IN [err |-> Nil, wizards |-> [docs EXCEPT ![k] = a]]

\* the step of Update at which the store fails, if any
UpdateFailures == {"none", "scale_up", "scale_down", "conn", "update"}

\* Update: the stored specification looked up, its alarms removed, the new
\* alarms created, the document replaced; a connection failure returns nil
Update(a, failAt) ==
    LET old == FindByName(wizards, a.Name)
        a1 == IF a.MinUnits <= 0 THEN [a EXCEPT !.MinUnits = 1] ELSE a
        rm == removeAlarms(alarms, old.autoScale)
        up == newScaleAction(rm.alarms, a1, "scale_up", failAt = "scale_up")
        down == newScaleAction(up.alarms, a1, "scale_down", failAt = "scale_down")
    IN IF old.err # Nil
       THEN [err |-> old.err, alarms |-> alarms, wizards |-> wizards]
       ELSE IF rm.err # Nil
       THEN [err |-> rm.err, alarms |-> rm.alarms, wizards |-> wizards]
       ELSE IF up.err # Nil
       THEN [err |-> up.err, alarms |-> up.alarms, wizards |-> wizards]
       ELSE IF down.err # Nil
       THEN [err |-> down.err, alarms |-> down.alarms, wizards |-> wizards]
       ELSE IF failAt = "conn"
       THEN [err |-> Nil, alarms |-> down.alarms, wizards |-> wizards]
       ELSE LET w == wizardUpdate(wizards, a.Name, a1, failAt = "update")
            IN [err |-> w.err, alarms |-> down.alarms, wizards |-> w.wizards]

WizardNew ==
    \E a \in AutoScales, failAt \in NewFailures :
        LET r == New(a, failAt)
        IN /\ alarms' = r.alarms
           /\ wizards' = r.wizards
           /\ lastOp' = [op |-> "New", a |-> a, failAt |-> failAt,
                         before |-> DOMAIN alarms, err |-> r.err]
           /\ UNCHANGED <<events, now>>

\* the specifications a caller holds: those it may create and those stored
Callers == AutoScales \cup Range(wizards)

WizardUpdate ==
    \E a \in AutoScales, failAt \in UpdateFailures :
        LET r == Update(a, failAt)
        IN /\ alarms' = r.alarms
           /\ wizards' = r.wizards
           /\ lastOp' = [op |-> "Update", a |-> a, failAt |-> failAt,
                         before |-> alarms, err |-> r.err]
           /\ UNCHANGED <<events, now>>

WizardRemove ==
    \E a \in Callers, failAt \in RemoveFailures :
        LET r == Remove(a, failAt)
        IN /\ alarms' = r.alarms
           /\ wizards' = r.wizards
           /\ events' = r.events
           /\ lastOp' = [op |-> "Remove", a |-> a, failAt |-> failAt,
                         before |-> alarms, eventsBefore |-> events,
                         err |-> r.err]
           /\ UNCHANGED now

WizardEnable ==
    \E a \in AutoScales :
        LET r == Enable(a)
        IN /\ alarms' = r.alarms
           /\ lastOp' = [op |-> "Enable", a |-> a, failAt |-> "none",
                         before |-> alarms, err |-> r.err]
           /\ UNCHANGED <<events, now, wizards>>

WizardDisable ==
    \E a \in AutoScales :
        LET r == Disable(a)
        IN /\ alarms' = r.alarms
           /\ lastOp' = [op |-> "Disable", a |-> a, failAt |-> "none",
                         before |-> alarms, err |-> r.err]
           /\ UNCHANGED <<events, now, wizards>>

WizardEnabled ==
    \E a \in AutoScales :
        /\ lastOp' = [op |-> "Enabled", a |-> a, ret |-> Enabled(a)]
        /\ UNCHANGED <<alarms, events, now, wizards>>

\* an event as the events collection stores it, with the alarm it was
\* created for captured by value
WizardEvent(id, name, instance, kind, start, end) ==
    [ID |-> id, AlarmName |-> name,
     Alarm |-> [Name |-> name, Instance |-> instance, Actions |-> <<kind>>],
     Type |-> kind, StartTime |-> start, EndTime |-> end,
     Successful |-> ~IsZero(end), Error |-> ""]

\* the events recorded before the wizard operations start: two for the
\* instance "a", the second in flight, and one for the instance "a_b"
WizardHistory ==
    <<WizardEvent(1, UpAlarm, <<"a">>, "scale_up", Epoch, Epoch),
      WizardEvent(2, Sprintf2("scale_up", <<"a", "_", "b">>), <<"a", "_", "b">>,
                  "scale_up", Epoch, Epoch + 1),
      WizardEvent(3, DownAlarm, <<"a">>, "scale_down", Epoch + 1, ZeroTime)>>

InitWizard ==
    /\ alarms = <<>>
    /\ events = WizardHistory
    /\ now = Epoch + MaxClock
    /\ wizards = <<>>
    /\ lastOp = [op |-> "none"]

NextWizard ==
    \/ WizardNew
    \/ WizardUpdate
    \/ WizardRemove
    \/ WizardEnable
    \/ WizardDisable
    \/ WizardEnabled

SpecWizard == InitWizard /\ [][NextWizard]_vars

\* C10: New is all-or-nothing on the alarms: when New fails and neither of
\* the two alarms of the specification existed before the call, neither
\* exists after it (a scale_up alarm created before the scale_down alarm
\* failed is removed again).
C10_NewIsAllOrNothing ==
    (lastOp.op = "New" /\ lastOp.err # Nil
        /\ Range(alarmNames(lastOp.a)) \cap lastOp.before = {})
    => Range(alarmNames(lastOp.a)) \cap DOMAIN alarms = {}

\* the alarms of the last operation's specification that were not in the
\* store when the operation started
MissingBefore == Range(alarmNames(lastOp.a)) \ DOMAIN lastOp.before

\* C11: Enable, Disable and Remove return a lookup error whenever one of the
\* two alarms of the specification is missing when they are called.
C11_MissingAlarmIsLookupError ==
    (lastOp.op \in {"Enable", "Disable", "Remove"} /\ MissingBefore # {})
    => lastOp.err = ErrNotFound

\* Enable is called with the scale_up alarm stored and the scale_down alarm
\* missing, and returns the lookup error
C11_Witness ==
    /\ lastOp.op = "Enable"
    /\ MissingBefore = {alarmNames(lastOp.a)[2]}
    /\ lastOp.err = ErrNotFound

\* C12: Enabled() is true exactly when both alarms of the specification
\* exist and both have Enabled = true; it is false when either is disabled
\* or missing.
C12_EnabledIffBothEnabled ==
    lastOp.op = "Enabled"
    => (lastOp.ret <=> \A n \in Range(alarmNames(lastOp.a)) :
                            n \in DOMAIN alarms /\ alarms[n].Enabled)

\* Enabled() answers false for a specification whose scale_up alarm is
\* enabled and whose scale_down alarm is missing
C12_Witness ==
    /\ lastOp.op = "Enabled"
    /\ ~lastOp.ret
    /\ alarmNames(lastOp.a)[1] \in DOMAIN alarms
    /\ alarms[alarmNames(lastOp.a)[1]].Enabled
    /\ alarmNames(lastOp.a)[2] \notin DOMAIN alarms

\* C13: a successful Remove removes both alarms of the specification and
\* the stored specification, and leaves the events as they were: the
\* events query of the specification returns after the call what it
\* returned before it.
C13_RemoveKeepsEvents ==
    (lastOp.op = "Remove" /\ lastOp.err = Nil)
    => /\ Range(alarmNames(lastOp.a)) \cap DOMAIN alarms = {}
       /\ lastOp.a \notin Range(wizards)
       /\ events = lastOp.eventsBefore
       /\ Events(lastOp.a, events, FALSE) =
              Events(lastOp.a, lastOp.eventsBefore, FALSE)
       /\ \A e \in Range(lastOp.eventsBefore) :
              e.Alarm.Instance = lastOp.a.Name
              => e \in Range(Events(lastOp.a, events, FALSE).events)

\* a Remove succeeds for a specification that has events recorded
C13_Witness ==
    /\ lastOp.op = "Remove"
    /\ lastOp.err = Nil
    /\ Range(alarmNames(lastOp.a)) \subseteq DOMAIN lastOp.before
    /\ Len(Events(lastOp.a, lastOp.eventsBefore, FALSE).events) = 2

\* the placeholder tokens of the built-in templates
Placeholders ==
    {t \in Range(unitsExpression) \cup Range(defaultExpression) :
        t \in {"{aggregator}", "{operator}", "{value}", "{minUnits}",
               "{metric}", "{process}"}}

\* C14: every alarm the wizard produces has an Expression with no residual
\* placeholder token: each placeholder of the joined templates is replaced
\* by its value before the alarm is created.
C14_NoResidualPlaceholder ==
    \A n \in DOMAIN alarms : Range(alarms[n].Expression) \cap Placeholders = {}

\* the specification as New and Update store it: MinUnits at least 1
Stored(a) == IF a.MinUnits <= 0 THEN [a EXCEPT !.MinUnits = 1] ELSE a

\* C16: New, Update and Remove return the first error met in any of their
\* steps: none returns success when a step failed, and a success result of
\* New or Update means the specification is in the store (of Remove, that
\* it is no longer there).
C16_SuccessMeansPersisted ==
    (lastOp.op \in {"New", "Update", "Remove"} /\ lastOp.err = Nil)
    => /\ lastOp.failAt = "none"
       /\ lastOp.op \in {"New", "Update"} => Stored(lastOp.a) \in Range(wizards)
       /\ lastOp.op = "Remove" => lastOp.a \notin Range(wizards)

\* the Wait configured for an alarm of the wizard: that of the ScaleAction
\* of its direction
ConfiguredWait(al) ==
    IF al.Actions = <<"scale_up">> THEN ScaleUpAction.Wait
    ELSE ScaleDownAction.Wait

\* C17 as stated: the Wait of each alarm the wizard generates equals the
\* Wait configured in its ScaleAction, stored unchanged.
C17_WaitStoredUnchanged ==
    \A n \in DOMAIN alarms : alarms[n].Wait = ConfiguredWait(alarms[n])

\* C17: the Wait of each alarm the wizard generates is the configured Wait
\* multiplied by time.Second in time.Duration arithmetic: a representable
\* duration congruent to the product modulo the width of the type, so a
\* large configured value wraps around.
C17_WaitTimesSecond ==
    \A n \in DOMAIN alarms :
        /\ alarms[n].Wait \in MinDuration..MaxDuration
        /\ (alarms[n].Wait - ConfiguredWait(alarms[n]) * Second)
               % (2 * (MaxDuration + 1)) = 0

\* a scale_down alarm is stored whose Wait wrapped around to a negative
\* duration, next to a scale_up alarm whose product did not wrap
C17_Witness ==
    /\ lastOp.op = "New"
    /\ lastOp.err = Nil
    /\ alarms[alarmNames(lastOp.a)[1]].Wait = ScaleUpAction.Wait * Second
    /\ alarms[alarmNames(lastOp.a)[2]].Wait < 0

\* C19: Enable, Disable and Remove are atomic over the two alarms of the
\* specification: when the operation returns an error, the scale_up alarm
\* exists exactly if it did before the call and has the Enabled flag it had.
C19_FailedCallLeavesScaleUp ==
    (lastOp.op \in {"Enable", "Disable", "Remove"} /\ lastOp.err # Nil)
    => LET up == alarmNames(lastOp.a)[1]
       IN /\ up \in DOMAIN alarms <=> up \in DOMAIN lastOp.before
          /\ (up \in DOMAIN alarms /\ up \in DOMAIN lastOp.before)
             => alarms[up].Enabled = lastOp.before[up].Enabled

\* C20: the names New creates the alarms under are the names alarms()
\* gives, and Enable, Disable, Update and Remove on one specification leave
\* every alarm created for a specification of another name as it was.
C20_OtherAlarmsUntouched ==
    /\ (lastOp.op = "New" /\ lastOp.err = Nil)
       => \A i \in 1..2 :
             /\ alarmNames(lastOp.a)[i] \in DOMAIN alarms
             /\ alarms[alarmNames(lastOp.a)[i]].Instance = lastOp.a.Name
    /\ lastOp.op \in {"Enable", "Disable", "Update", "Remove"}
       => \A n \in DOMAIN lastOp.before :
             lastOp.before[n].Instance # lastOp.a.Name
             => (n \in DOMAIN alarms /\ alarms[n] = lastOp.before[n])

\* C15: AutoScaleEnable returns no error and leaves Enabled = true,
\* AutoScaleDisable returns no error and leaves Enabled = false, whatever
\* Enabled was before (so each is idempotent and the later call decides),
\* and no other field of the config is changed.
C15_EnableDisableSetFlag ==
    /\ lastOp.op = "AutoScaleEnable"
       => /\ lastOp.err = Nil
          /\ alarms[lastOp.config.Name] = [lastOp.config EXCEPT !.Enabled = TRUE]
    /\ lastOp.op = "AutoScaleDisable"
       => /\ lastOp.err = Nil
          /\ alarms[lastOp.config.Name] = [lastOp.config EXCEPT !.Enabled = FALSE]

\* AutoScaleEnable is called on a config that is enabled already
C15_Witness ==
    /\ lastOp.op = "AutoScaleEnable"
    /\ lastOp.config.Enabled
    /\ alarms[lastOp.config.Name].Enabled

\* C18: an enabled alarm whose expression is true and whose dispatcher
\* returns fires again after its cooldown: a tick taken when the alarm's
\* most recent event is closed and now - EndTime exceeds Wait creates a new
\* event for it.
C18_FiresAgainAfterCooldown ==
    \A n \in DOMAIN alarms :
        LET mine == eventsByAlarmName(lastOp.before, n)
        IN (IsTick /\ alarms[n].Enabled /\ lastOp.checks[n] = "true"
               /\ lastOp.dispatch = "ok"
               /\ mine # <<>> /\ ~InFlight(mine[Len(mine)])
               /\ Sub(now, mine[Len(mine)].EndTime) > alarms[n].Wait)
           => Len(eventsByAlarmName(events, n)) > Len(mine)


====
